---------------------------- MODULE Spec2Model ----------------------------
(***************************************************************************)
(* A model of the tokenizer of ronnyjay/quark: src/src/lexer.rs, function   *)
(* process and the predicates and the operator table it uses.               *)
(*                                                                           *)
(* Bytes are natural numbers (their ASCII codes), texts are sequences of    *)
(* bytes.  One action of the model is one iteration of the `while` loop of  *)
(* process in one LexerState; the loop's exit and the final state check are *)
(* the actions LoopExit and FinalCheck.                                     *)
(***************************************************************************)
EXTENDS Integers, Sequences, FiniteSets, TLC

(***************************************************************************)
(* Bounds of the model.                                                     *)
(***************************************************************************)
\* the longest input drawn from the whole alphabet
MaxLen == 4
\* the lexeme vector of the model keeps at most this many lexemes; a run
\* that consumes a byte per lexeme never reaches it (MaxLexemes > MaxLen + 1)
MaxLexemes == 8

(***************************************************************************)
(* ASCII: the byte of a one-character string.                               *)
(***************************************************************************)
Ascii ==
    [ch \in {"NUL", "\t", "\n", " ", "%", "&", "(", ")", "*", "+", "-", ".", "/",
             "0", "1", "2", "3", "5", "8", "9", ":", ";", "<", "=", ">",
             "A", "E", "Z", "[", "]", "^", "_", "a", "b", "e", "z", "{", "|", "}"} |->
        CASE ch = "NUL" -> 0   [] ch = "\t" -> 9   [] ch = "\n" -> 10
          [] ch = " " -> 32    [] ch = "%" -> 37   [] ch = "&" -> 38
          [] ch = "(" -> 40    [] ch = ")" -> 41   [] ch = "*" -> 42
          [] ch = "+" -> 43    [] ch = "-" -> 45   [] ch = "." -> 46
          [] ch = "/" -> 47    [] ch = "0" -> 48   [] ch = "1" -> 49
          [] ch = "2" -> 50    [] ch = "3" -> 51   [] ch = "5" -> 53
          [] ch = "8" -> 56    [] ch = "9" -> 57   [] ch = ":" -> 58
          [] ch = ";" -> 59    [] ch = "<" -> 60   [] ch = "=" -> 61
          [] ch = ">" -> 62    [] ch = "A" -> 65   [] ch = "E" -> 69
          [] ch = "Z" -> 90    [] ch = "[" -> 91   [] ch = "]" -> 93
          [] ch = "^" -> 94    [] ch = "_" -> 95   [] ch = "a" -> 97
          [] ch = "b" -> 98    [] ch = "e" -> 101  [] ch = "z" -> 122
          [] ch = "{" -> 123   [] ch = "|" -> 124  [] ch = "}" -> 125]

\* the text (sequence of bytes) of a tuple of one-character strings
Text(chars) == [i \in 1..Len(chars) |-> Ascii[chars[i]]]

(***************************************************************************)
(* Classification predicates.                                               *)
(***************************************************************************)
is_letter(c) == c \in Ascii["a"]..Ascii["z"] \/ c \in Ascii["A"]..Ascii["Z"]

\* u8::is_ascii_digit: '0'..='9'
is_ascii_digit(c) == c \in Ascii["0"]..Ascii["9"]

is_number(c) == is_ascii_digit(c)

is_start_of_identifier(c) == is_letter(c)

\* is_valid_in_identifier with the underscore forgotten
is_valid_in_identifier_NoUnderscore(c) == is_letter(c) \/ is_number(c)

is_valid_in_identifier(c) == is_letter(c) \/ is_number(c) \/ c = Ascii["_"]

\* is_whitespace with the space forgotten
is_whitespace_TabOnly(c) == c = Ascii["\t"]

is_whitespace(c) == c \in {Ascii[" "], Ascii["\t"]}

\* is_operator: declared, and called nowhere in process
is_operator(c) ==
    c \in { Ascii["{"], Ascii["}"], Ascii["["], Ascii["]"], Ascii["("], Ascii[")"],
            Ascii["+"], Ascii["-"], Ascii["="], Ascii["*"], Ascii["/"], Ascii["&"],
            Ascii["|"], Ascii["."], Ascii["<"], Ascii[">"], Ascii["^"], Ascii[":"],
            Ascii[";"] }

\* the pattern b'0'..b'9' of the WholeNumber and Decimal states: a half-open
\* range, '9' is not in it
DigitExclusive(c) == c >= Ascii["0"] /\ c < Ascii["9"]

\* the pattern b'0'..=b'9' of the Exponentional state
DigitInclusive(c) == c >= Ascii["0"] /\ c <= Ascii["9"]

is_sign(c) == c = Ascii["-"] \/ c = Ascii["+"]

is_exponent_mark(c) == c = Ascii["e"] \/ c = Ascii["E"]

(***************************************************************************)
(* The operator table: the texts string_to_operator maps to Some(token).    *)
(***************************************************************************)
OperatorTable ==
    { <<Text(<<"+", "=">>), "PlusEquals">>,
      <<Text(<<"-", "=">>), "MinusEquals">>,
      <<Text(<<"*", "=">>), "AsteriskEquals">>,
      <<Text(<<"/", "=">>), "ForwardSlashEquals">>,
      <<Text(<<"=", "=">>), "EqualsEquals">>,
      <<Text(<<"+">>), "Plus">>,
      <<Text(<<"-">>), "Minus">>,
      <<Text(<<"+", "+">>), "PlusPlus">>,
      <<Text(<<"-", "-">>), "MinusMinus">>,
      <<Text(<<"*">>), "Asterisk">>,
      <<Text(<<"*", "*">>), "AsteriskAsterisk">>,
      <<Text(<<"&">>), "Ampersand">>,
      <<Text(<<"&", "&">>), "AmpersandAmpersand">>,
      <<Text(<<"|">>), "Pipe">>,
      <<Text(<<"|", "|">>), "PipePipe">>,
      <<Text(<<"%">>), "Percent">>,
      <<Text(<<"/">>), "ForwardSlash">>,
      <<Text(<<"=">>), "Equals">>,
      <<Text(<<"(">>), "LeftParenthesis">>,
      <<Text(<<")">>), "RightParenthesis">>,
      <<Text(<<"{">>), "LeftBracket">>,
      <<Text(<<"}">>), "RightBracket">>,
      <<Text(<<"[">>), "LeftBrace">>,
      <<Text(<<"]">>), "RightBrace">>,
      <<Text(<<"<">>), "LeftCaret">>,
      <<Text(<<">">>), "RightCaret">>,
      <<Text(<<";">>), "Semicolon">>,
      <<Text(<<":", ":">>), "ColonColon">> }

\* Option<Token>: "None", or the name of the token
string_to_operator(str) ==
    IF \E e \in OperatorTable : e[1] = str
    THEN (CHOOSE e \in OperatorTable : e[1] = str)[2]
    ELSE "None"

(***************************************************************************)
(* The state of one call of process.                                        *)
(***************************************************************************)
VARIABLES
    input,        \* the byte source as the caller handed it over
    bytes,        \* the byte source, consumed from the front
    state,        \* LexerState
    line_number,
    value,        \* the accumulator
    lexemes,      \* the lexeme vector
    pc,           \* "loop", "check" (after the loop), "ok" or "err" (returned)
    result        \* what process returned

vars == <<input, bytes, state, line_number, value, lexemes, pc, result>>

LexerStates ==
    {"Overall", "Identifier", "WholeNumber", "Decimal", "Exponentional", "Literal", "Operator"}

NoResult == [kind |-> "None", error |-> "", line |-> 0, byte |-> 0, state |-> "", lexemes |-> <<>>]

\* Ok(lexemes)
Ok(ls) == [NoResult EXCEPT !.kind = "Ok", !.lexemes = ls]

\* Err(format!(...)): the message as its kind and the values formatted into it
Err(e, line, byte, st) ==
    [NoResult EXCEPT !.kind = "Err", !.error = e, !.line = line, !.byte = byte, !.state = st]

\* the locals of process, as one record
Cfg ==
    [bytes |-> bytes, state |-> state, line_number |-> line_number, value |-> value,
     lexemes |-> lexemes, pc |-> pc, result |-> result]

\* process entered with the byte source b
Start(b) ==
    [bytes |-> b, state |-> "Overall", line_number |-> 1, value |-> <<>>,
     lexemes |-> <<>>, pc |-> "loop", result |-> NoResult]

Lexeme(line, token, val) == [line_number |-> line, token |-> token, value |-> val]

\* lexemes.push(l); the model's vector keeps at most MaxLexemes lexemes
Push(ls, l) == IF Len(ls) < MaxLexemes THEN Append(ls, l) ELSE ls

\* return Err(...)
Return(c, r) == [c EXCEPT !.pc = IF r.kind = "Ok" THEN "ok" ELSE "err", !.result = r]

\* the emission with value.clear() forgotten
Flush_NoClear(c, token) ==
    [c EXCEPT !.state = "Overall",
              !.lexemes = Push(c.lexemes, Lexeme(c.line_number, token, c.value))]

\* state = Overall; lexemes.push(Lexeme {line_number, token, value.clone()}); value.clear()
Flush(c, token) ==
    [c EXCEPT !.state = "Overall",
              !.lexemes = Push(c.lexemes, Lexeme(c.line_number, token, c.value)),
              !.value = <<>>]


(***************************************************************************)
(* One iteration of the loop in each LexerState, as a function of the       *)
(* locals: c is the record of the locals at the head of the `match`, with   *)
(* c.bytes non-empty, and the result is the record after the iteration.     *)
(***************************************************************************)

\* the lookahead with the digit test forgotten: every byte goes to Operator
OverallLookahead_NoNumber(c) == [c EXCEPT !.state = "Operator"]

\* the lookahead with the wrong state chosen at the end of the source
OverallLookahead_Literal(c) ==
    IF Tail(c.bytes) # <<>>
    THEN IF is_ascii_digit(Head(Tail(c.bytes)))
         THEN [c EXCEPT !.state = "WholeNumber"]
         ELSE [c EXCEPT !.state = "Operator"]
    ELSE [c EXCEPT !.state = "Literal"]

\* the last arm of LexerState::Overall: one byte of lookahead, pushed back
OverallLookahead(c) ==
    LET current == Head(c.bytes)
        popped  == Tail(c.bytes)                        \* bytes.pop_front()
    IN  IF popped # <<>>
        THEN IF is_ascii_digit(Head(popped))
             THEN [c EXCEPT !.bytes = <<current>> \o popped, !.state = "WholeNumber"]
             ELSE [c EXCEPT !.bytes = <<current>> \o popped, !.state = "Operator"]
        ELSE [c EXCEPT !.bytes = <<current>> \o popped, !.state = "Operator"]

\* the arms after the newline arm with the NUL byte consumed before the break
OverallNoNewline_ConsumeNul(c) ==
    LET byte == Head(c.bytes) IN
    IF is_whitespace(byte)
    THEN [c EXCEPT !.bytes = Tail(c.bytes)]
    ELSE IF is_start_of_identifier(byte)
    THEN [c EXCEPT !.state = "Identifier"]
    ELSE IF byte = Ascii["NUL"]
    THEN [c EXCEPT !.bytes = Tail(c.bytes), !.pc = "check"]
    ELSE OverallLookahead(c)

\* the arms of LexerState::Overall after the newline arm
OverallNoNewline(c) ==
    LET byte == Head(c.bytes) IN
    IF is_whitespace(byte)
    THEN [c EXCEPT !.bytes = Tail(c.bytes)]
    ELSE IF is_start_of_identifier(byte)
    THEN [c EXCEPT !.state = "Identifier"]
    ELSE IF byte = Ascii["NUL"]
    THEN [c EXCEPT !.pc = "check"]                      \* break
    ELSE OverallLookahead(c)

\* LexerState::Overall with the newline consumed and not counted
OverallStep_NoLineCount(c) ==
    IF Head(c.bytes) = Ascii["\n"]
    THEN [c EXCEPT !.bytes = Tail(c.bytes)]
    ELSE OverallNoNewline(c)

\* LexerState::Overall
OverallStep(c) ==
    IF Head(c.bytes) = Ascii["\n"]
    THEN [c EXCEPT !.line_number = c.line_number + 1, !.bytes = Tail(c.bytes)]
    ELSE OverallNoNewline(c)

\* LexerState::Identifier
IdentifierStep(c) ==
    LET byte == Head(c.bytes) IN
    IF is_valid_in_identifier(byte)
    THEN [c EXCEPT !.value = Append(c.value, byte), !.bytes = Tail(c.bytes)]
    ELSE Flush(c, "Identifier")

\* LexerState::Operator with the one-character entry preferred to the
\* two-character one
OperatorMatch_SingleFirst(c) ==
    LET current   == Head(c.bytes)
        popped    == Tail(c.bytes)
        value1    == Append(c.value, current)
        single_op == string_to_operator(value1)
        value2    == Append(value1, Head(popped))
        double_op == string_to_operator(value2)
    IN  IF popped # <<>> /\ single_op = "None" /\ double_op # "None"
        THEN [token |-> double_op, value |-> value2, bytes |-> Tail(popped)]
        ELSE [token |-> single_op, value |-> value1, bytes |-> popped]

\* LexerState::Operator with value.pop() forgotten when the two-character
\* text is no entry
OperatorMatch_NoPop(c) ==
    LET current   == Head(c.bytes)
        popped    == Tail(c.bytes)
        value1    == Append(c.value, current)
        single_op == string_to_operator(value1)
        value2    == Append(value1, Head(popped))
        double_op == string_to_operator(value2)
    IN  IF popped # <<>>
        THEN IF double_op # "None"
             THEN [token |-> double_op, value |-> value2, bytes |-> Tail(popped)]
             ELSE [token |-> single_op, value |-> value2, bytes |-> popped]
        ELSE [token |-> single_op, value |-> value1, bytes |-> popped]

\* LexerState::Operator up to the end of `match bytes.front()`: the token
\* chosen, the accumulator and the byte source
OperatorMatch(c) ==
    LET current   == Head(c.bytes)
        popped    == Tail(c.bytes)                      \* bytes.pop_front()
        value1    == Append(c.value, current)           \* value.push(current)
        single_op == string_to_operator(value1)
        value2    == Append(value1, Head(popped))       \* value.push(*next)
        double_op == string_to_operator(value2)
    IN  IF popped # <<>>
        THEN IF double_op # "None"
             THEN [token |-> double_op, value |-> value2, bytes |-> Tail(popped)]
             ELSE [token |-> single_op, value |-> value1, bytes |-> popped]  \* value.pop()
        ELSE [token |-> single_op, value |-> value1, bytes |-> popped]

\* LexerState::Operator
OperatorStep(c) ==
    LET m      == OperatorMatch(c)
        afterM == [c EXCEPT !.value = m.value, !.bytes = m.bytes]
    IN  IF c.bytes = <<>>                               \* bytes.pop_front() is None
        THEN Return(c, Err("EmptyOperator", c.line_number, 0, ""))
        ELSE IF m.token # "None"
        THEN Flush(afterM, m.token)
        ELSE afterM

\* the e/E branch with the sign after the mark left in the source
ExponentMark_NoSign(c) ==
    [c EXCEPT !.value = Append(c.value, Head(c.bytes)), !.bytes = Tail(c.bytes),
              !.state = "Exponentional"]

\* the e/E branch of WholeNumber and of Decimal: the mark, then one optional sign
ExponentMark(c) ==
    LET popped == Tail(c.bytes)
        value1 == Append(c.value, Head(c.bytes))
    IN  IF popped # <<>> /\ is_sign(Head(popped))
        THEN [c EXCEPT !.value = Append(value1, Head(popped)), !.bytes = Tail(popped),
                       !.state = "Exponentional"]
        ELSE [c EXCEPT !.value = value1, !.bytes = popped, !.state = "Exponentional"]

\* the sign arm with a sign after the first byte taken as the end of the literal
WholeNumberSign_EndsLiteral(c) ==
    IF c.value = <<>>
    THEN [c EXCEPT !.value = Append(c.value, Head(c.bytes)), !.bytes = Tail(c.bytes)]
    ELSE Flush(c, "IntegerLiteral")

\* the arm b'-' | b'+' of LexerState::WholeNumber
WholeNumberSign(c) ==
    LET byte == Head(c.bytes) IN
    IF c.value = <<>>
    THEN [c EXCEPT !.value = Append(c.value, byte), !.bytes = Tail(c.bytes)]
    ELSE Return(c, Err("UnexpectedToken", c.line_number, byte, ""))

\* LexerState::WholeNumber
WholeNumberStep(c) ==
    LET byte == Head(c.bytes) IN
    IF is_sign(byte)
    THEN WholeNumberSign(c)
    ELSE IF DigitExclusive(byte)
    THEN [c EXCEPT !.value = Append(c.value, byte), !.bytes = Tail(c.bytes)]
    ELSE IF byte = Ascii["."]
    THEN [c EXCEPT !.value = Append(c.value, byte), !.bytes = Tail(c.bytes),
                   !.state = "Decimal"]
    ELSE IF is_exponent_mark(byte)
    THEN ExponentMark(c)
    ELSE Flush(c, "IntegerLiteral")

\* LexerState::Decimal
DecimalStep(c) ==
    LET byte == Head(c.bytes) IN
    IF DigitExclusive(byte)
    THEN [c EXCEPT !.value = Append(c.value, byte), !.bytes = Tail(c.bytes)]
    ELSE IF is_exponent_mark(byte)
    THEN ExponentMark(c)
    ELSE Flush(c, "FloatLiteral")

\* LexerState::Exponentional
ExponentionalStep(c) ==
    LET byte == Head(c.bytes) IN
    IF DigitInclusive(byte)
    THEN [c EXCEPT !.value = Append(c.value, byte), !.bytes = Tail(c.bytes)]
    ELSE Flush(c, "FloatLiteral")

\* the statements after the loop with the state check forgotten
FinalCheckStep_AlwaysOk(c) == Return(c, Ok(c.lexemes))

\* the statements after the loop with the Operator state let through
FinalCheckStep_OperatorOk(c) ==
    IF c.state \notin {"Overall", "Operator"}
    THEN Return(c, Err("UnterminatedState", 0, 0, c.state))
    ELSE Return(c, Ok(c.lexemes))

\* the statements after the loop
FinalCheckStep(c) ==
    IF c.state # "Overall"
    THEN Return(c, Err("UnterminatedState", 0, 0, c.state))
    ELSE Return(c, Ok(c.lexemes))

\* the `match state` of the loop body; `_` is the arm of every other state
MatchState(c) ==
    CASE c.state = "Overall"       -> OverallStep(c)
      [] c.state = "Identifier"    -> IdentifierStep(c)
      [] c.state = "Operator"      -> OperatorStep(c)
      [] c.state = "WholeNumber"   -> WholeNumberStep(c)
      [] c.state = "Decimal"       -> DecimalStep(c)
      [] c.state = "Exponentional" -> ExponentionalStep(c)
      [] OTHER                     -> Return(c, Err("InternalParsingError", 0, 0, ""))

\* the loop body: `match bytes.front()`, then `match state`
LoopBody(c) ==
    IF c.bytes = <<>>                                   \* bytes.front() is None
    THEN Return(c, Err("ShouldNotGetHere", 0, 0, ""))
    ELSE MatchState(c)

\* one step of process from c: the loop test and one iteration, or the final check
Iterate(c) ==
    IF c.pc = "check" THEN FinalCheckStep(c)
    ELSE IF c.bytes = <<>> THEN [c EXCEPT !.pc = "check"]
    ELSE LoopBody(c)

(***************************************************************************)
(* The state machine.                                                       *)
(***************************************************************************)
\* the bytes the bounded inputs are drawn from: one or two of each class the
\* tokenizer tells apart
Alphabet ==
    { Ascii["NUL"], Ascii["\n"], Ascii[" "], Ascii["a"], Ascii["e"], Ascii["_"],
      Ascii["1"], Ascii["9"], Ascii["+"], Ascii["="], Ascii["."], Ascii[":"] }

\* the inputs of the specification's examples and of the operator table
ExampleInputs ==
    { Text(<<"1", "2", "3", "NUL">>),
      Text(<<"1", "2", ".", "5", "e", "-", "3", "NUL">>),
      Text(<<"a", "\n", "b", "NUL">>),
      Text(<<"^", " ", "NUL">>),
      Text(<<"+", " ", "=", "NUL">>),
      Text(<<"a", "-", "1", "2", "NUL">>),
      Text(<<"1", "2", "-", "5", "NUL">>) }
    \cup { Text(<<p[1], p[2], "NUL">>) :
             p \in { <<"*", "*">>, <<"&", "&">>, <<"|", "|">>, <<"=", "=">>, <<"+", "=">>,
                     <<"-", "=">>, <<"*", "=">>, <<"/", "=">>, <<"+", "+">>, <<"-", "-">>,
                     <<"<", "=">>, <<">", "=">>, <<"<", "<">>, <<">", ">">>, <<":", ":">> } }

\* every text over the alphabet of at most n bytes
TextsUpTo(n) == UNION { [1..k -> Alphabet] : k \in 0..n }

Inputs == TextsUpTo(MaxLen) \cup ExampleInputs

Install(r) ==
    /\ bytes' = r.bytes
    /\ state' = r.state
    /\ line_number' = r.line_number
    /\ value' = r.value
    /\ lexemes' = r.lexemes
    /\ pc' = r.pc
    /\ result' = r.result
    /\ UNCHANGED input

Init ==
    /\ input \in Inputs
    /\ bytes = input
    /\ state = "Overall"
    /\ line_number = 1
    /\ value = <<>>
    /\ lexemes = <<>>
    /\ pc = "loop"
    /\ result = NoResult

\* at the head of the loop body (the `while` test passed), in state st
InLoop(st) == pc = "loop" /\ bytes # <<>> /\ state = st

Overall == InLoop("Overall") /\ Install(LoopBody(Cfg))

Identifier == InLoop("Identifier") /\ Install(LoopBody(Cfg))

Operator == InLoop("Operator") /\ Install(LoopBody(Cfg))

WholeNumber == InLoop("WholeNumber") /\ Install(LoopBody(Cfg))

Decimal == InLoop("Decimal") /\ Install(LoopBody(Cfg))

Exponentional == InLoop("Exponentional") /\ Install(LoopBody(Cfg))

\* while !bytes.is_empty(): the source is exhausted
LoopExit == pc = "loop" /\ bytes = <<>> /\ Install([Cfg EXCEPT !.pc = "check"])

FinalCheck == pc = "check" /\ Install(FinalCheckStep(Cfg))

Next ==
    \/ Overall
    \/ Identifier
    \/ Operator
    \/ WholeNumber
    \/ Decimal
    \/ Exponentional
    \/ LoopExit
    \/ FinalCheck

Spec == Init /\ [][Next]_vars

\* Init with the bounded inputs one byte shorter
InitShort ==
    /\ Init
    /\ input \in TextsUpTo(MaxLen - 1) \cup ExampleInputs

\* process is sequential code: a step that can be taken is taken
FairSpec == InitShort /\ [][Next]_vars /\ WF_vars(Next)

Returned == pc \in {"ok", "err"}


(***************************************************************************)
(* Helpers of the claims.                                                   *)
(***************************************************************************)
NulTerminated(t) == t # <<>> /\ t[Len(t)] = Ascii["NUL"]

\* t without its last byte
Front(t) == SubSeq(t, 1, Len(t) - 1)

NoNul(t) == \A i \in 1..Len(t) : t[i] # Ascii["NUL"]

(***************************************************************************)
(* C1: for every finite input the scanning loop terminates: process         *)
(* eventually returns Ok or an error.                                       *)
(***************************************************************************)
C1_Terminates == <>Returned


(***************************************************************************)
(* C2: an input of one or more ASCII digits and the NUL sentinel gives      *)
(* Ok with exactly one lexeme, an IntegerLiteral whose value is the digits. *)
(***************************************************************************)
AllDigits(t) == t # <<>> /\ \A i \in 1..Len(t) : is_ascii_digit(t[i])

C2_DigitsGiveOneInteger ==
    (NulTerminated(input) /\ AllDigits(Front(input)) /\ Returned)
        => result = Ok(<<Lexeme(1, "IntegerLiteral", Front(input))>>)

(***************************************************************************)
(* C3: each two-character entry of the specification's operator table,      *)
(* followed by the NUL sentinel, gives exactly one lexeme whose value is    *)
(* the two-character text.                                                  *)
(***************************************************************************)
SpecTwoCharOperators ==
    { Text(p) : p \in { <<"*", "*">>, <<"&", "&">>, <<"|", "|">>, <<"=", "=">>, <<"+", "=">>,
                        <<"-", "=">>, <<"*", "=">>, <<"/", "=">>, <<"+", "+">>, <<"-", "-">>,
                        <<"<", "=">>, <<">", "=">>, <<"<", "<">>, <<">", ">">>, <<":", ":">> } }

C3_TwoCharOperatorIsOneLexeme ==
    (NulTerminated(input) /\ Front(input) \in SpecTwoCharOperators /\ Returned)
        => /\ result.kind = "Ok"
           /\ Len(result.lexemes) = 1
           /\ result.lexemes[1].value = Front(input)

(***************************************************************************)
(* C4: when the Operator state reads a byte for which neither the           *)
(* one-character text nor the two-character text with the next byte is an   *)
(* entry of the operator table, process fails at once with an               *)
(* UnrecognizedOperator error for the current line, and consumes no byte    *)
(* after that one.                                                          *)
(***************************************************************************)
IsEntry(t) == \E e \in OperatorTable : e[1] = t

\* the Operator state starts on a token whose first byte begins no entry
OperatorReadsNoEntry ==
    /\ InLoop("Operator")
    /\ value = <<>>
    /\ ~IsEntry(<<Head(bytes)>>)
    /\ ~(Len(bytes) >= 2 /\ IsEntry(<<bytes[1], bytes[2]>>))

C4_UnrecognizedOperatorAtOnce ==
    [][OperatorReadsNoEntry
         => /\ pc' = "err"
            /\ result'.error = "UnrecognizedOperator"
            /\ result'.line = line_number
            /\ bytes' = Tail(bytes)]_vars

(***************************************************************************)
(* C5: an input of one letter, then letters, digits or underscores, then    *)
(* the NUL sentinel gives Ok with exactly one lexeme, an Identifier whose   *)
(* value is the text before the sentinel.                                   *)
(***************************************************************************)
IsIdentifierText(t) ==
    /\ t # <<>>
    /\ is_letter(t[1])
    /\ \A i \in 2..Len(t) : \/ (t[i] >= Ascii["0"] /\ t[i] <= Ascii["9"])
                            \/ (t[i] >= Ascii["a"] /\ t[i] <= Ascii["z"])
                            \/ (t[i] >= Ascii["A"] /\ t[i] <= Ascii["Z"])
                            \/ t[i] = Ascii["_"]

C5_IdentifierIsOneLexeme ==
    (NulTerminated(input) /\ IsIdentifierText(Front(input)))
        => /\ pc # "err"
           /\ Returned => result = Ok(<<Lexeme(1, "Identifier", Front(input))>>)

C5_Witness ==
    /\ input = Text(<<"a", "_", "1", "NUL">>)
    /\ pc = "ok"
    /\ result.lexemes = <<Lexeme(1, "Identifier", Text(<<"a", "_", "1">>))>>

(***************************************************************************)
(* C6: the line counter starts at 1; a lexeme is emitted with the line      *)
(* number 1 + the number of newline bytes of the input before the lexeme's  *)
(* first byte; the line numbers of the emitted lexemes never decrease.      *)
(***************************************************************************)
RECURSIVE Newlines(_)
Newlines(t) ==
    IF t = <<>> THEN 0
    ELSE (IF Head(t) = Ascii["\n"] THEN 1 ELSE 0) + Newlines(Tail(t))

\* the step emits a lexeme
Emits == Len(lexemes') = Len(lexemes) + 1

C6_LineTracking ==
    [][/\ (bytes = input /\ pc = "loop") => line_number = 1
       /\ Emits =>
            LET l     == lexemes'[Len(lexemes')]
                first == Len(input) - Len(bytes') - Len(l.value)   \* bytes before l
            IN  /\ l.line_number = 1 + Newlines(SubSeq(input, 1, first))
                /\ lexemes # <<>> => lexemes[Len(lexemes)].line_number <= l.line_number
      ]_vars

C6_Witness ==
    /\ input = Text(<<"a", "\n", "b", "NUL">>)
    /\ pc = "ok"
    /\ result.lexemes = << Lexeme(1, "Identifier", Text(<<"a">>)),
                           Lexeme(2, "Identifier", Text(<<"b">>)) >>

(***************************************************************************)
(* C7: for an input without the NUL sentinel whose final bytes the machine  *)
(* handles in Identifier or Operator state, process returns the             *)
(* UnterminatedState error and never Ok.                                    *)
(***************************************************************************)
IsSuffix(t, u) == Len(t) <= Len(u) /\ SubSeq(u, Len(u) - Len(t) + 1, Len(u)) = t

LiteralTokens == {"Identifier", "IntegerLiteral", "FloatLiteral"}

\* the source is exhausted and its final bytes were an operator the Operator
\* state emitted
FinalOperatorEmitted ==
    /\ bytes = <<>>
    /\ state = "Overall"
    /\ lexemes # <<>>
    /\ lexemes[Len(lexemes)].token \notin LiteralTokens
    /\ lexemes[Len(lexemes)].value # <<>>
    /\ IsSuffix(lexemes[Len(lexemes)].value, input)

\* the source is exhausted with the machine in Identifier or Operator state
FinalTokenUnflushed == bytes = <<>> /\ state \in {"Identifier", "Operator"}

C8_Examples ==
    /\ input = Text(<<"+", "=", "NUL">>)
         => result = Ok(<<Lexeme(1, "PlusEquals", Text(<<"+", "=">>))>>)
    /\ input = Text(<<"+", "+", "NUL">>)
         => result = Ok(<<Lexeme(1, "PlusPlus", Text(<<"+", "+">>))>>)
    /\ input = Text(<<"+", " ", "=", "NUL">>)
         => result = Ok(<< Lexeme(1, "Plus", Text(<<"+">>)),
                           Lexeme(1, "Equals", Text(<<"=">>)) >>)

C8_MaximalMunch ==
    [][/\ Returned' => C8_Examples'
       /\ (InLoop("Operator") /\ value = <<>>) =>
            LET two == Len(bytes) >= 2 /\ IsEntry(<<bytes[1], bytes[2]>>)
                one == IsEntry(<<bytes[1]>>)
            IN  /\ two  => /\ bytes' = Tail(Tail(bytes))
                           /\ Emits
                           /\ lexemes'[Len(lexemes')].value = <<bytes[1], bytes[2]>>
                /\ ~two => /\ bytes' = Tail(bytes)
                           /\ one => /\ Emits
                                     /\ lexemes'[Len(lexemes')].value = <<bytes[1]>>
                           /\ ~one => lexemes' = lexemes
      ]_vars

C8_Witness ==
    /\ input = Text(<<"+", " ", "=", "NUL">>)
    /\ pc = "ok"
    /\ Len(result.lexemes) = 2

(***************************************************************************)
(* C9: "12.5e-3" NUL gives exactly one lexeme, a FloatLiteral with the      *)
(* value "12.5e-3": WholeNumber, then Decimal on '.', then Exponentional on *)
(* 'e' with the sign after it absorbed, emitted on the first non-digit.     *)
(***************************************************************************)
FloatExample == Text(<<"1", "2", ".", "5", "e", "-", "3">>)

C9_FloatLiteral ==
    input = Append(FloatExample, Ascii["NUL"])
        => /\ pc # "err"
           /\ Returned => result = Ok(<<Lexeme(1, "FloatLiteral", FloatExample)>>)
           /\ (pc = "loop" /\ value # <<>>) =>
                /\ IsSuffix(bytes, input) /\ value \o bytes = input
                /\ state = CASE Len(value) <= 2 -> "WholeNumber"
                             [] Len(value) <= 4 -> "Decimal"
                             [] OTHER           -> "Exponentional"
                /\ Len(value) # 5                  \* 'e' and '-' in one step
                /\ lexemes = <<>>

C9_Witness ==
    /\ input = Append(FloatExample, Ascii["NUL"])
    /\ pc = "ok"
    /\ result.lexemes[1].token = "FloatLiteral"

(***************************************************************************)
(* C10: when process returns Ok on a NUL-terminated input, process on the   *)
(* lexeme values joined with single spaces, with NUL appended, returns Ok   *)
(* with the same sequence of token kinds and values.                        *)
(***************************************************************************)
RECURSIVE Run(_, _)
\* process from the locals c, for at most fuel steps
Run(c, fuel) ==
    IF c.pc \in {"ok", "err"} \/ fuel = 0 THEN c
    ELSE Run(Iterate(c), fuel - 1)

\* process(b): no run that returns takes more than 2 steps a byte and 3
Process(b) == Run(Start(b), 2 * Len(b) + 3)

RECURSIVE Join(_)
\* the values of the lexemes, separated by single spaces
Join(ls) ==
    IF ls = <<>> THEN <<>>
    ELSE IF Len(ls) = 1 THEN ls[1].value
    ELSE ls[1].value \o <<Ascii[" "]>> \o Join(Tail(ls))

KindsAndValues(ls) == [i \in 1..Len(ls) |-> <<ls[i].token, ls[i].value>>]

C10_RoundTrip ==
    (NulTerminated(input) /\ pc = "ok")
        => LET again == Process(Append(Join(result.lexemes), Ascii["NUL"]))
           IN  /\ again.pc = "ok"
               /\ KindsAndValues(again.result.lexemes) = KindsAndValues(result.lexemes)

C10_Witness ==
    /\ input = Text(<<"+", "a", "=", "NUL">>)
    /\ pc = "ok"
    /\ Join(result.lexemes) = Text(<<"+", " ", "a", " ", "=">>)
    /\ Process(Append(Join(result.lexemes), Ascii["NUL"])).result.lexemes = result.lexemes


(***************************************************************************)
(* C11: process returns Ok only when the loop ends with the machine in      *)
(* Overall state; ending the scan in Identifier, WholeNumber, Decimal,      *)
(* Exponentional or Operator state yields an error and no lexemes.          *)
(***************************************************************************)
C11_OkOnlyInOverall ==
    /\ pc = "ok" => state = "Overall" /\ result = Ok(lexemes)
    /\ (Returned /\ state # "Overall")
         => /\ result.kind = "Err"
            /\ result.lexemes = <<>>
            /\ bytes = <<>> => result = Err("UnterminatedState", 0, 0, state)

\* the scan ended in Exponentional state, with a lexeme already emitted
C11_Witness ==
    /\ pc = "err"
    /\ state = "Exponentional"
    /\ bytes = <<>>
    /\ lexemes # <<>>
    /\ result.error = "UnterminatedState"

(***************************************************************************)
(* C12: in the WholeNumber and Decimal states every ASCII digit '0'..'9',   *)
(* '9' included, is consumed and appended to the accumulator, without       *)
(* emitting a lexeme or leaving the state.                                  *)
(***************************************************************************)
C12_EveryDigitAccumulates ==
    [][((InLoop("WholeNumber") \/ InLoop("Decimal")) /\ is_ascii_digit(Head(bytes)))
         => /\ bytes' = Tail(bytes)
            /\ value' = Append(value, Head(bytes))
            /\ lexemes' = lexemes
            /\ state' = state]_vars

(***************************************************************************)
(* C13: in Overall state, a byte that is not newline, whitespace, a letter, *)
(* NUL, a digit, a sign, '.', or the first character of an operator-table   *)
(* entry makes process return an unexpected-character error for the current *)
(* line and that byte, whatever bytes follow it.                            *)
(***************************************************************************)
StartsEntry(b) == \E e \in OperatorTable : e[1][1] = b

Unclassified(b) ==
    /\ b # Ascii["\n"]
    /\ ~is_whitespace(b)
    /\ ~is_letter(b)
    /\ b # Ascii["NUL"]
    /\ ~is_ascii_digit(b)
    /\ ~is_sign(b)
    /\ b # Ascii["."]
    /\ ~StartsEntry(b)
    /\ ~is_operator(b)          \* nor any other operator character ('^', ':')

C13_UnexpectedCharacterInOverall ==
    [][(InLoop("Overall") /\ Unclassified(Head(bytes)))
         => /\ pc' = "err"
            /\ result' = Err("UnexpectedToken", line_number, Head(bytes), "")]_vars

(***************************************************************************)
(* C14: in WholeNumber state a sign is consumed only when the accumulator   *)
(* is empty; a sign seen when the accumulator is non-empty makes process    *)
(* return an unexpected-character error at once, the byte left unconsumed   *)
(* and no lexemes delivered ("12-5" NUL is an error).                       *)
(***************************************************************************)
C14_SignOnlyFirst ==
    [][/\ (Returned' /\ input = Text(<<"1", "2", "-", "5", "NUL">>))
            => result' = Err("UnexpectedToken", 1, Ascii["-"], "")
       /\ (InLoop("WholeNumber") /\ is_sign(Head(bytes))) =>
            IF value = <<>>
            THEN /\ bytes' = Tail(bytes)
                 /\ value' = <<Head(bytes)>>
                 /\ pc' = "loop" /\ state' = "WholeNumber" /\ lexemes' = lexemes
            ELSE /\ pc' = "err"
                 /\ result' = Err("UnexpectedToken", line_number, Head(bytes), "")
                 /\ result'.lexemes = <<>>
                 /\ bytes' = bytes
      ]_vars

\* "+1+": the first sign was consumed, the second is the error
C14_Witness ==
    /\ pc = "err"
    /\ result.error = "UnexpectedToken"
    /\ value = Text(<<"+", "1">>)
    /\ bytes # <<>> /\ is_sign(Head(bytes))


(***************************************************************************)
(* C15: whenever Overall state sees '+' or '-' immediately followed by a    *)
(* digit, whatever lexeme precedes it, the sign becomes the first character *)
(* of the value of the next numeric-literal lexeme, and no Plus or Minus    *)
(* lexeme is emitted for it ("a-12" NUL gives Identifier "a", then          *)
(* IntegerLiteral "-12").                                                   *)
(***************************************************************************)
NumericTokens == {"IntegerLiteral", "FloatLiteral"}

\* bytes b begin with a sign and a digit
SignThenDigit(b) == Len(b) >= 2 /\ is_sign(b[1]) /\ is_ascii_digit(b[2])

C15_SignBelongsToNumber ==
    [][/\ (Returned' /\ input = Text(<<"a", "-", "1", "2", "NUL">>))
            => result' = Ok(<< Lexeme(1, "Identifier", Text(<<"a">>)),
                               Lexeme(1, "IntegerLiteral", Text(<<"-", "1", "2">>)) >>)
       \* Overall hands the sign to WholeNumber, which takes it as the first byte
       /\ (InLoop("Overall") /\ SignThenDigit(bytes))
            => state' = "WholeNumber" /\ bytes' = bytes /\ lexemes' = lexemes /\ value' = <<>>
       /\ (InLoop("WholeNumber") /\ value = <<>> /\ SignThenDigit(bytes))
            => state' = "WholeNumber" /\ value' = <<bytes[1]>> /\ bytes' = Tail(bytes)
                 /\ lexemes' = lexemes
       \* the lexeme that starts at such a sign is a numeric literal with the sign first
       /\ Emits =>
            LET l     == lexemes'[Len(lexemes')]
                first == Len(input) - Len(bytes') - Len(l.value)
            IN  SignThenDigit(SubSeq(input, first + 1, Len(input)))
                  => l.token \in NumericTokens /\ l.value # <<>> /\ l.value[1] = input[first + 1]
      ]_vars

C15_Witness ==
    /\ input = Text(<<"a", "-", "1", "2", "NUL">>)
    /\ pc = "ok"
    /\ Len(result.lexemes) = 2
    /\ result.lexemes[2].value = Text(<<"-", "1", "2">>)

(***************************************************************************)
(* C16: when Overall state sees a NUL byte process stops successfully       *)
(* without consuming it: on every Ok return the byte source is empty or its *)
(* front byte is NUL, every byte from that NUL on is untouched, and the     *)
(* lexemes returned are exactly those of the bytes before it.               *)
(***************************************************************************)
\* the bytes of the input that are no longer in the byte source
Consumed == SubSeq(input, 1, Len(input) - Len(bytes))

C16_StopsAtNul ==
    /\ (InLoop("Overall") /\ Head(bytes) = Ascii["NUL"])
         => Iterate(Iterate(Cfg)).result = Ok(lexemes) /\ Iterate(Cfg).bytes = bytes
    /\ pc = "ok" =>
         /\ bytes = <<>> \/ Head(bytes) = Ascii["NUL"]
         /\ IsSuffix(bytes, input)
         /\ NoNul(Consumed)
         /\ Process(Append(Consumed, Ascii["NUL"])).result = result

\* Ok with bytes left after the NUL
C16_Witness ==
    /\ pc = "ok"
    /\ result.lexemes # <<>>
    /\ Len(bytes) >= 2
    /\ Head(bytes) = Ascii["NUL"]
    /\ bytes[2] # Ascii["NUL"]

(***************************************************************************)
(* C17: the machine state is never Literal, and none of the defensive       *)
(* error returns is executed: the `_` arm of the state match, the return    *)
(* for an empty source at the head of the loop body, the return for an      *)
(* empty source in Operator state.                                          *)
(***************************************************************************)
DefensiveErrors == {"InternalParsingError", "ShouldNotGetHere", "EmptyOperator"}

C17_NoDefensiveReturn ==
    /\ state \in LexerStates \ {"Literal"}
    /\ result.error \notin DefensiveErrors
    /\ pc = "loop" => Iterate(Cfg).result.error \notin DefensiveErrors

\* the Operator state took the last byte of the source and the loop test ended the scan
C17_Witness ==
    /\ pc = "check"
    /\ state = "Operator"
    /\ bytes = <<>>

(***************************************************************************)
(* C18: byte conservation.  After every step the input is, in order, the    *)
(* bytes accounted for and then the byte source; the bytes accounted for    *)
(* are the values of the emitted lexemes, in order, with the whitespace and *)
(* newline bytes skipped in Overall between them, and then the accumulator. *)
(* Every lexeme value is a contiguous part of the input.                    *)
(***************************************************************************)
IsBlank(b) == is_whitespace(b) \/ b = Ascii["\n"]

IsPrefix(t, u) == Len(t) <= Len(u) /\ SubSeq(u, 1, Len(t)) = t

Drop(t, n) == SubSeq(t, n + 1, Len(t))

RECURSIVE SkipBlanks(_)
SkipBlanks(t) == IF t # <<>> /\ IsBlank(Head(t)) THEN SkipBlanks(Tail(t)) ELSE t

RECURSIVE Accounts(_, _)
\* t is the values of ls in order, with skipped blanks before, between and after
Accounts(t, ls) ==
    IF ls = <<>> THEN SkipBlanks(t) = <<>>
    ELSE LET u == SkipBlanks(t)
         IN  \/ IsPrefix(ls[1].value, u) /\ Accounts(Drop(u, Len(ls[1].value)), Tail(ls))
             \* an empty value may stand before the blanks too
             \/ ls[1].value = <<>> /\ Accounts(t, Tail(ls))

C18_ByteConservation ==
    /\ IsSuffix(bytes, input)
    /\ IsSuffix(value, Consumed)
    /\ Accounts(SubSeq(Consumed, 1, Len(Consumed) - Len(value)), lexemes)

\* a lexeme, a skipped blank, a token in the accumulator and bytes still to read
C18_Witness ==
    /\ pc = "loop"
    /\ Len(lexemes) = 1
    /\ lexemes[1].value # <<>>
    /\ value # <<>>
    /\ bytes # <<>>
    /\ IsPrefix(lexemes[1].value, input)
    /\ IsBlank(input[Len(lexemes[1].value) + 1])

(***************************************************************************)
(* C19: whenever the machine is in Overall state the accumulator is empty:  *)
(* every transition into Overall emits one lexeme and clears the            *)
(* accumulator in the same step, and the steps of Overall do not write to   *)
(* the accumulator.                                                         *)
(***************************************************************************)
C19_AccumulatorEmptyInOverall ==
    [][/\ state = "Overall" => value = <<>>
       /\ state' = "Overall" => value' = <<>>
       /\ (state # "Overall" /\ state' = "Overall")
            \* the lexeme holds the accumulator and the bytes this step took
            => \E token \in LiteralTokens \cup {e[2] : e \in OperatorTable} :
                  lexemes' = Push(lexemes, Lexeme(line_number, token,
                                     SubSeq(input, Len(Consumed) - Len(value) + 1,
                                            Len(input) - Len(bytes'))))
       /\ state = "Overall" => value' = value
      ]_vars

C19_Witness ==
    /\ pc = "loop"
    /\ state = "Overall"
    /\ Len(lexemes) = 2
    /\ value = <<>>
    /\ bytes # <<>>

=============================================================================
